---- MODULE Spec2Model ----
(***************************************************************************)
(* A model of lib/jwk/keystore.js: the key registry (JWKRegistry), the     *)
(* hierarchical key store (JWKStore) with its asynchronous add / generate, *)
(* its synchronous remove, its queries all / get / toJSON, and the         *)
(* coercion asKeyStore.                                                    *)
(*                                                                         *)
(* JavaScript runs one callback at a time, so every action below is one    *)
(* synchronous run: the body of a method up to the point where it returns  *)
(* its promise, or the continuation that runs when a factory's promise     *)
(* settles.                                                                *)
(***************************************************************************)
EXTENDS Integers, Sequences, FiniteSets, TLC

\* ------------------------------------------------------------------ bounds

\* The number of add / generate calls issued in one behaviour.
MaxCalls == 3

\* ------------------------------------------------------- JavaScript values

\* A field that is not set (undefined).
Absent == "<absent>"

\* Truthiness of a string-or-undefined field: undefined and "" are falsy.
Truthy(x) == x # Absent /\ x # ""

\* An object's property name for a value used as a key: undefined becomes
\* the string "undefined".
PropName(x) == IF x = Absent THEN "undefined" ELSE x

\* ------------------------------------------------------------------ stores

NoStore == "<none>"

\* A chain of three stores: leaf's parent is mid, mid's parent is root.
Stores == {"root", "mid", "leaf"}

\* The parent given to the JWKStore constructor.
Parent(s) == CASE s = "leaf" -> "mid"
               [] s = "mid" -> "root"
               [] OTHER -> NoStore

\* ---------------------------------------------------------------- registry

NoFactory == 0

\* The type tags the registry is asked for.
Tags == {"oct", "EC"}

\* factory.kty, factories being numbered by identity: factories 1 and 2
\* both carry the tag "oct", factories 3 and 4 the tag "EC"; the tag of
\* factory 5 is the empty string, and factory 6 has no string for a tag.
FactoryKty(f) ==
    CASE f \in {1, 2} -> "oct"
      [] f \in {3, 4} -> "EC"
      [] f = 5 -> ""
      [] OTHER -> Absent

\* The test register and unregister open with, negated.
ValidFactory(f) == f # NoFactory /\ FactoryKty(f) # Absent /\ FactoryKty(f) # ""

\* JWKRegistry.get
RegistryGet(ty, kty) ==
    LET tag == IF Truthy(kty) THEN kty ELSE "" IN
    IF tag \in DOMAIN ty THEN ty[tag] ELSE NoFactory

\* ------------------------------------------------------------- keys, JSON

\* The JSON form of a key: the fields the store reads, and whether the
\* private material is present.
Json(kty, kid, use, alg, d) ==
    [kty |-> kty, kid |-> kid, use |-> use, alg |-> alg, d |-> d]

NoJson == Json(Absent, Absent, Absent, Absent, FALSE)

\* new JWK.BaseKey(kty, keystore, props, cfg): the key takes its fields
\* from props; cfg decides the algorithms it supports; uid is the object's
\* identity.
BaseKey(uid, kty, store, props, cfg) ==
    [uid |-> uid, kty |-> kty, kid |-> props.kid, use |-> props.use,
     alg |-> props.alg, d |-> props.d, sup |-> cfg, keystore |-> store]

NoKey == BaseKey(0, Absent, NoStore, NoJson, {})

\* key.toJSON(isPrivate): the private material only when isPrivate.
KeyToJSON(key, isPrivate) ==
    Json(key.kty, key.kid, key.use, key.alg, isPrivate /\ key.d)

\* key.supports(alg)
Supports(key, alg) == alg \in key.sup

\* -------------------------------------------------------- keysets (object)

\* keysets is an object whose property order is the order of creation: a
\* sequence of buckets [id, keys].
BucketIds(ks) == {ks[i].id : i \in 1..Len(ks)}

BucketPos(ks, id) == CHOOSE i \in 1..Len(ks) : ks[i].id = id

\* keysets[id], or the empty sequence when there is no such property.
Bucket(ks, id) == IF id \in BucketIds(ks) THEN ks[BucketPos(ks, id)].keys ELSE <<>>

\* Every key of a store, bucket by bucket.
RECURSIVE Flatten(_)
Flatten(ks) == IF ks = <<>> THEN <<>> ELSE Head(ks).keys \o Flatten(Tail(ks))

Range(seq) == {seq[i] : i \in 1..Len(seq)}

\* The bucket a key is filed under by add.
BucketIdOf(key) == IF Truthy(key.kid) THEN key.kid ELSE ""

\* A plausible slip: the bucket is replaced, not extended.
PushOverwrite(ks, key) ==
    LET kid == BucketIdOf(key) IN
    IF kid \in BucketIds(ks)
    THEN [ks EXCEPT ![BucketPos(ks, kid)].keys = <<key>>]
    ELSE Append(ks, [id |-> kid, keys |-> <<key>>])

\* A plausible slip: the key is put in front (unshift for push).
PushFront(ks, key) ==
    LET kid == BucketIdOf(key) IN
    IF kid \in BucketIds(ks)
    THEN [ks EXCEPT ![BucketPos(ks, kid)].keys = <<key>> \o @]
    ELSE Append(ks, [id |-> kid, keys |-> <<key>>])

\* add's last continuation: keys = keysets[kid] = keysets[kid] || [];
\* keys.push(jwk).
Push(ks, key) ==
    LET kid == BucketIdOf(key) IN
    IF kid \in BucketIds(ks)
    THEN [ks EXCEPT ![BucketPos(ks, kid)].keys = Append(@, key)]
    ELSE Append(ks, [id |-> kid, keys |-> <<key>>])

\* keys.indexOf(jwk): by identity; 0 when absent.
IndexOf(keys, key) ==
    IF \E i \in 1..Len(keys) : keys[i].uid = key.uid
    THEN CHOOSE i \in 1..Len(keys) :
           /\ keys[i].uid = key.uid
           /\ \A j \in 1..(i - 1) : keys[j].uid # key.uid
    ELSE 0

\* seq without its element at pos.
Splice(seq, pos) == SubSeq(seq, 1, pos - 1) \o SubSeq(seq, pos + 1, Len(seq))

\* A plausible slip: the test of pos is left out, and splice(-1, 1) takes
\* out the last key of the bucket.
RemoveKeyNoPosTest(ks, jwk) ==
    IF jwk = NoKey THEN ks
    ELSE LET id == PropName(jwk.kid) IN
         IF id \notin BucketIds(ks) THEN ks
         ELSE LET b == BucketPos(ks, id)
                  found == IndexOf(ks[b].keys, jwk)
                  pos == IF found = 0 THEN Len(ks[b].keys) ELSE found
              IN IF Len(ks[b].keys) = 1
                 THEN Splice(ks, b)
                 ELSE [ks EXCEPT ![b].keys = Splice(@, pos)]

\* A plausible slip: the emptied bucket is left in keysets.
RemoveKeyLeavesBucket(ks, jwk) ==
    IF jwk = NoKey THEN ks
    ELSE LET id == PropName(jwk.kid) IN
         IF id \notin BucketIds(ks) THEN ks
         ELSE LET b == BucketPos(ks, id)
                  pos == IndexOf(ks[b].keys, jwk)
              IN IF pos = 0 THEN ks
                 ELSE [ks EXCEPT ![b].keys = Splice(@, pos)]

\* The body of remove, on one store's keysets: the bucket is looked up
\* under jwk.kid as it is.
RemoveKey(ks, jwk) ==
    IF jwk = NoKey THEN ks
    ELSE LET id == PropName(jwk.kid) IN
         IF id \notin BucketIds(ks) THEN ks
         ELSE LET b == BucketPos(ks, id)
                  pos == IndexOf(ks[b].keys, jwk)
              IN IF pos = 0 THEN ks
                 ELSE IF Len(ks[b].keys) = 1
                      THEN Splice(ks, b)
                      ELSE [ks EXCEPT ![b].keys = Splice(@, pos)]

\* ------------------------------------------------------------------ all

\* A filter (props): kty, use, alg, kid, each a string or not set.
Props(kty, use, alg, kid) == [kty |-> kty, use |-> use, alg |-> alg, kid |-> kid]

\* {}
EmptyProps == Props(Absent, Absent, Absent, Absent)

\* A plausible slip: "dir" is not exempted from the comparison with key.alg.
MatchesNoDir(props, key) ==
    IF Truthy(props.kty) /\ Truthy(key.kty) /\ props.kty # key.kty THEN FALSE
    ELSE IF Truthy(props.use) /\ Truthy(key.use) /\ props.use # key.use THEN FALSE
    ELSE IF Truthy(props.alg)
         THEN IF Truthy(key.alg) /\ props.alg # key.alg
              THEN FALSE
              ELSE Supports(key, props.alg)
         ELSE TRUE

\* A plausible slip: a key without a use fails a filter that names one.
MatchesStrictUse(props, key) ==
    IF Truthy(props.kty) /\ Truthy(key.kty) /\ props.kty # key.kty THEN FALSE
    ELSE IF Truthy(props.use) /\ props.use # key.use THEN FALSE
    ELSE IF Truthy(props.alg)
         THEN IF props.alg # "dir" /\ Truthy(key.alg) /\ props.alg # key.alg
              THEN FALSE
              ELSE Supports(key, props.alg)
         ELSE TRUE

\* The closure matches of all.
matches(props, key) ==
    IF Truthy(props.kty) /\ Truthy(key.kty) /\ props.kty # key.kty THEN FALSE
    ELSE IF Truthy(props.use) /\ Truthy(key.use) /\ props.use # key.use THEN FALSE
    ELSE IF Truthy(props.alg)
         THEN IF props.alg # "dir" /\ Truthy(key.alg) /\ props.alg # key.alg
              THEN FALSE
              ELSE Supports(key, props.alg)
         ELSE TRUE

\* The forEach over Object.keys(keysets) of all: the candidates of one
\* store's own keysets.
RECURSIVE LocalAll(_, _)
LocalAll(ks, props) ==
    IF ks = <<>> THEN <<>>
    ELSE LET b == Head(ks)
             keys == IF Truthy(props.kid) /\ props.kid # b.id
                     THEN <<>>
                     ELSE SelectSeq(b.keys, LAMBDA k : matches(props, k))
         IN keys \o LocalAll(Tail(ks), props)

\* A plausible slip: the parent is asked for its own keys only.
AllParentLocal(kss, s, props, local) ==
    LocalAll(kss[s], props)
      \o (IF ~local /\ Parent(s) # NoStore
          THEN LocalAll(kss[Parent(s)], props)
          ELSE <<>>)

\* store.all(props, local), kss being every store's keysets.
RECURSIVE all(_, _, _, _)
all(kss, s, props, local) ==
    LocalAll(kss[s], props)
      \o (IF ~local /\ Parent(s) # NoStore
          THEN all(kss, Parent(s), props, FALSE)
          ELSE <<>>)

\* ------------------------------------------------------------------ get

\* An argument of get: undefined, null, a string, a boolean or a filter
\* object.
JUndef == [t |-> "undefined", s |-> "", b |-> FALSE, o |-> EmptyProps]
JNull == [t |-> "null", s |-> "", b |-> FALSE, o |-> EmptyProps]
JStr(x) == [t |-> "string", s |-> x, b |-> FALSE, o |-> EmptyProps]
JBool(x) == [t |-> "boolean", s |-> "", b |-> x, o |-> EmptyProps]
JObj(p) == [t |-> "object", s |-> "", b |-> FALSE, o |-> p]

\* typeof v: null is an object.
TypeOf(v) == IF v.t = "null" THEN "object" ELSE v.t

JTruthy(v) == CASE v.t = "string" -> v.s # ""
                [] v.t = "boolean" -> v.b
                [] v.t = "object" -> TRUE
                [] OTHER -> FALSE

\* get's "reconcile arguments": the (kid, props, local) it goes on with.
Reconcile(kid, props, local) ==
    IF TypeOf(kid) = "boolean"
    THEN [kid |-> JNull, props |-> JNull, local |-> kid]
    ELSE IF TypeOf(kid) = "object"
         THEN [kid |-> JNull, props |-> kid, local |-> props]
         ELSE [kid |-> kid, props |-> props, local |-> local]

\* get's "fixup props": the effective filter.
Fixup(r) ==
    LET p == IF JTruthy(r.props) THEN r.props.o ELSE EmptyProps IN
    IF JTruthy(r.kid) THEN [p EXCEPT !.kid = r.kid.s] ELSE p

\* What a call returns: a key, null, or a thrown TypeError.
RetKey(k) == [kind |-> "key", key |-> k]
RetNull == [kind |-> "null", key |-> NoKey]
RetThrow == [kind |-> "throw", key |-> NoKey]

\* candidates[0] || null for an array of keys.
First(candidates) == IF candidates = <<>> THEN RetNull ELSE RetKey(candidates[1])

\* candidates[0] || null for what parent.get returned: a key has no
\* property 0, and reading a property of null throws.
FirstOfResult(r) == IF r.kind = "key" THEN RetNull ELSE RetThrow

\* store.get(kid, props, local)
RECURSIVE get(_, _, _, _, _)
get(kss, s, kid, props, local) ==
    LET r == Reconcile(kid, props, local)
        p == Fixup(r)
        candidates == all(kss, s, p, TRUE)
    IN IF candidates = <<>> /\ Parent(s) # NoStore /\ ~JTruthy(r.local)
       THEN FirstOfResult(get(kss, Parent(s), JObj(p), r.local, JUndef))
       ELSE First(candidates)

\* ---------------------------------------------------------------- state

VARIABLES
    types,      \* the registry: tag -> factory
    keysets,    \* store -> its keysets
    calls,      \* the add / generate calls issued, in call order
    removed,    \* history: the uids of the keys a remove has taken out
    ret,        \* the call of the step just taken and what it returned,
                \* for register, unregister, remove, all, get and toJSON
    coerce,     \* the asKeyStore call: its promise and the adds it waits for
    raced       \* history: the calls in flight for an identifier whose
                \* bucket a remove has deleted meanwhile

vars == <<types, keysets, calls, removed, ret, coerce, raced>>

CallIds == 1..MaxCalls

\* A call not yet made.
NoCall ==
    [op |-> "none", st |-> "idle", store |-> NoStore, jwk |-> NoJson,
     fac |-> NoFactory, key |-> NoKey, err |-> "", at |-> "", src |-> 0]

\* The step just taken was no call of the registry and no remove, all, get
\* or toJSON.
NoRet ==
    [op |-> "none", store |-> NoStore, arg |-> NoKey, props |-> EmptyProps,
     local |-> FALSE, seq |-> <<>>, res |-> RetNull, fac |-> NoFactory,
     was |-> NoFactory, isPrivate |-> FALSE]

\* asKeyStore has not been called. Once it was called on a list: the store
\* it created, the length n of the list, the calls of the adds it started,
\* and the error and the call its promise was rejected with.
NoCoerce ==
    [st |-> "idle", store |-> NoStore, n |-> 0, entries |-> {}, err |-> "",
     by |-> 0]

Init ==
    /\ types = [t \in Tags |-> NoFactory]
    /\ keysets = [s \in Stores |-> <<>>]
    /\ calls = [c \in CallIds |-> NoCall]
    /\ removed = {}
    /\ ret = NoRet
    /\ coerce = NoCoerce
    /\ raced = {}

\* Calls are numbered in the order they are made.
IsNextCall(c) ==
    /\ calls[c].op = "none"
    /\ \A d \in 1..(c - 1) : calls[d].op # "none"

\* The keys callers hold: the results of the calls that resolved.
KnownKeys == {calls[c].key : c \in {d \in CallIds : calls[d].st = "resolved"}}

Rejected(call, err, at) ==
    [call EXCEPT !.st = "rejected", !.err = err, !.at = at,
                 !.jwk = NoJson, !.fac = NoFactory]

\* ------------------------------------------------------------- registry

\* What register and unregister leave in ret: the factory given, and the
\* factory that was stored under its tag before the call.
RegistryRet(op, f) ==
    [NoRet EXCEPT !.op = op, !.fac = f,
                  !.was = IF ValidFactory(f) THEN types[FactoryKty(f)] ELSE NoFactory,
                  !.res = IF ValidFactory(f) THEN RetNull ELSE RetThrow]

\* A plausible slip: a tag that is taken is not given to another factory.
registerKeepsFirst(f) ==
    /\ types' = IF ValidFactory(f) /\ types[FactoryKty(f)] = NoFactory
                THEN [types EXCEPT ![FactoryKty(f)] = f]
                ELSE types
    /\ ret' = RegistryRet("register", f)
    /\ UNCHANGED <<keysets, calls, removed, coerce, raced>>

\* registry.register(factory): throws for a factory that is not valid.
register(f) ==
    /\ types' = IF ValidFactory(f) THEN [types EXCEPT ![FactoryKty(f)] = f] ELSE types
    /\ ret' = RegistryRet("register", f)
    /\ UNCHANGED <<keysets, calls, removed, coerce, raced>>

\* A plausible slip: the tag is freed whichever factory holds it.
unregisterByTag(f) ==
    /\ types' = IF ValidFactory(f)
                THEN [types EXCEPT ![FactoryKty(f)] = NoFactory]
                ELSE types
    /\ ret' = RegistryRet("unregister", f)
    /\ UNCHANGED <<keysets, calls, removed, coerce, raced>>

\* registry.unregister(factory): throws for a factory that is not valid.
unregister(f) ==
    /\ types' = IF ValidFactory(f) /\ types[FactoryKty(f)] = f
                THEN [types EXCEPT ![FactoryKty(f)] = NoFactory]
                ELSE types
    /\ ret' = RegistryRet("unregister", f)
    /\ UNCHANGED <<keysets, calls, removed, coerce, raced>>

\* registry.get(kty)
registryGet(kty) ==
    /\ ret' = [NoRet EXCEPT !.op = "registry.get", !.props = Props(kty, Absent, Absent, Absent),
                            !.fac = RegistryGet(types, kty)]
    /\ UNCHANGED <<types, keysets, calls, removed, coerce, raced>>

\* ------------------------------------------------------------------ add

\* The values handed to add and asKeyStore that are no Key: a string, a
\* list, an object with a "keys" member, any other object, a number, a
\* store.
VText(text) ==
    [t |-> "string", text |-> text, items |-> <<>>, json |-> NoJson, store |-> NoStore]
VArray(items) ==
    [t |-> "array", text |-> "", items |-> items, json |-> NoJson, store |-> NoStore]
VKeys(items) ==
    [t |-> "keys", text |-> "", items |-> items, json |-> NoJson, store |-> NoStore]
VObject(json) ==
    [t |-> "object", text |-> "", items |-> <<>>, json |-> json, store |-> NoStore]
VNumber ==
    [t |-> "number", text |-> "", items |-> <<>>, json |-> NoJson, store |-> NoStore]
VStore(s) ==
    [t |-> "store", text |-> "", items |-> <<>>, json |-> NoJson, store |-> s]

JwkA == Json("oct", "a", Absent, Absent, FALSE)
JwkRsa == Json("RSA", "a", Absent, Absent, FALSE)

\* JSON.parse on the texts the clients send: the value, or a SyntaxError
\* for a text that is no JSON.
SyntaxError == [ok |-> FALSE, v |-> VNumber]
Parsed(v) == [ok |-> TRUE, v |-> v]
JSONparse(text) ==
    CASE text = "{\"kty\":\"oct\",\"kid\":\"a\"}" -> Parsed(VObject(JwkA))
      [] text = "[{\"kty\":\"oct\",\"kid\":\"a\"}]" -> Parsed(VArray(<<VObject(JwkA)>>))
      [] text = "{\"keys\":[{\"kty\":\"oct\",\"kid\":\"a\"}]}"
           -> Parsed(VKeys(<<VObject(JwkA)>>))
      [] text = "{}" -> Parsed(VObject(NoJson))
      [] text = "[]" -> Parsed(VArray(<<>>))
      [] text = "42" -> Parsed(VNumber)
      [] OTHER -> SyntaxError

\* What add is given: a plain object, a Key, or a text.
ObjectInput(json) == [form |-> "object", json |-> json, key |-> NoKey, text |-> ""]
KeyInput(key) == [form |-> "key", json |-> NoJson, key |-> key, text |-> ""]
TextInput(text) == [form |-> "text", json |-> NoJson, key |-> NoKey, text |-> text]

\* add's first lines: a text is replaced by what it parses to, a Key by
\* its toJSON(true). A parsed value that is no object has no members.
Normalize(input) ==
    CASE input.form = "key" -> KeyToJSON(input.key, TRUE)
      [] input.form = "text" -> JSONparse(input.text).v.json
      [] OTHER -> input.json

\* The rest of add's synchronous part: the factory is looked up, and
\* either the promise is rejected at once or prepare is awaited. call is
\* the call's record so far, at where in the call this add runs.
AddLookup(call, jwk, at) ==
    LET keytype == RegistryGet(types, jwk.kty) IN
    IF keytype = NoFactory
    THEN Rejected(call, "unsupported key type", at)
    ELSE [call EXCEPT !.st = "preparing", !.jwk = jwk, !.fac = keytype]

\* The call threw: there is no promise.
Thrown(call, err) == [call EXCEPT !.st = "thrown", !.err = err, !.at = "call"]

\* The synchronous part of store.add(input) as the call's record: JSON.parse
\* throws out of add on a text that is no JSON.
AddSync(s, input) ==
    LET call == [NoCall EXCEPT !.op = "add", !.store = s, !.src = input.key.uid] IN
    IF input.form = "text" /\ ~JSONparse(input.text).ok
    THEN Thrown(call, "SyntaxError")
    ELSE AddLookup(call, Normalize(input), "call")

\* store.add(input), up to the promise it returns.
add(c, s, input) ==
    /\ IsNextCall(c)
    /\ calls' = [calls EXCEPT ![c] = AddSync(s, input)]
    /\ ret' = NoRet
    /\ UNCHANGED <<types, keysets, removed, coerce, raced>>

\* Promise.all's reactions to the add of call c settling: the first
\* rejection rejects asKeyStore's promise, the last fulfilment fulfils it.
\* cs are the calls after the step.
AllReact(co, cs, c) ==
    IF co.st # "pending" \/ c \notin co.entries THEN co
    ELSE IF cs[c].st = "rejected"
         THEN [co EXCEPT !.st = "rejected", !.err = cs[c].err, !.by = c]
    ELSE IF \A e \in co.entries : cs[e].st = "resolved"
         THEN [co EXCEPT !.st = "resolved"]
    ELSE co

\* A plausible slip: the key is filed whether prepare resolved or not.
prepareRejectedInserts(c) ==
    /\ calls[c].st = "preparing"
    /\ keysets' = [keysets EXCEPT ![calls[c].store] =
                     Push(@, BaseKey(c, calls[c].jwk.kty, calls[c].store,
                                     calls[c].jwk, {}))]
    /\ calls' = [calls EXCEPT ![c] = Rejected(@, "prepare failed", "prepare")]
    /\ coerce' = AllReact(coerce, calls', c)
    /\ ret' = NoRet
    /\ UNCHANGED <<types, removed, raced>>

\* keytype.prepare(jwk) rejects: add's promise rejects with it, and the
\* reactions to that promise run.
prepareRejected(c) ==
    /\ calls[c].st = "preparing"
    /\ calls' = [calls EXCEPT ![c] = Rejected(@, "prepare failed", "prepare")]
    /\ coerce' = AllReact(coerce, calls', c)
    /\ ret' = NoRet
    /\ UNCHANGED <<types, keysets, removed, raced>>

\* A plausible slip: the last continuation returns the key without filing
\* it.
prepareResolvedDropsKey(c, cfg) ==
    /\ calls[c].st = "preparing"
    /\ calls' = [calls EXCEPT ![c] =
                   [@ EXCEPT !.st = "resolved",
                             !.key = BaseKey(c, calls[c].jwk.kty, calls[c].store,
                                             calls[c].jwk, cfg),
                             !.jwk = NoJson, !.fac = NoFactory]]
    /\ coerce' = AllReact(coerce, calls', c)
    /\ ret' = NoRet
    /\ UNCHANGED <<types, keysets, removed, raced>>

\* A plausible slip: the bucket is taken hold of before prepare is awaited,
\* so that a call whose bucket was deleted meanwhile pushes its key into
\* a sequence the store no longer has.
prepareResolvedStale(c, cfg) ==
    /\ calls[c].st = "preparing"
    /\ LET s == calls[c].store
           key == BaseKey(c, calls[c].jwk.kty, s, calls[c].jwk, cfg)
       IN /\ keysets' = IF c \in raced THEN keysets
                        ELSE [keysets EXCEPT ![s] = Push(@, key)]
          /\ calls' = [calls EXCEPT ![c] =
                         [@ EXCEPT !.st = "resolved", !.key = key,
                                   !.jwk = NoJson, !.fac = NoFactory]]
    /\ coerce' = AllReact(coerce, calls', c)
    /\ ret' = NoRet
    /\ UNCHANGED <<types, removed, raced>>

\* keytype.prepare(jwk) resolves with cfg: the two continuations of add,
\* the new BaseKey and its filing in keysets.
prepareResolved(c, cfg) ==
    /\ calls[c].st = "preparing"
    /\ LET s == calls[c].store
           key == BaseKey(c, calls[c].jwk.kty, s, calls[c].jwk, cfg)
       IN /\ keysets' = [keysets EXCEPT ![s] = Push(@, key)]
          /\ calls' = [calls EXCEPT ![c] =
                         [@ EXCEPT !.st = "resolved", !.key = key,
                                   !.jwk = NoJson, !.fac = NoFactory]]
    /\ coerce' = AllReact(coerce, calls', c)
    /\ ret' = NoRet
    /\ UNCHANGED <<types, removed, raced>>

\* ------------------------------------------------------------- generate

\* merge(props, jwk, {kty: kty}): jwk's fields over props', kty last.
Merge(props, jwk, kty) ==
    LET pick(a, b) == IF b # Absent THEN b ELSE a IN
    Json(kty, pick(props.kid, jwk.kid), pick(props.use, jwk.use),
         pick(props.alg, jwk.alg), props.d \/ jwk.d)

\* store.generate(kty, size, props), up to the promise it returns. size is
\* only handed to the factory.
generate(c, s, kty, props) ==
    /\ IsNextCall(c)
    /\ LET keytype == RegistryGet(types, kty) IN
       calls' = [calls EXCEPT ![c] =
                   IF keytype = NoFactory
                   THEN Rejected([NoCall EXCEPT !.op = "generate", !.store = s],
                                 "unsupported key type", "call")
                   ELSE [NoCall EXCEPT !.op = "generate", !.st = "generating",
                                       !.store = s, !.fac = keytype,
                                       !.jwk = [props EXCEPT !.kty = kty]]]
    /\ ret' = NoRet
    /\ UNCHANGED <<types, keysets, removed, coerce, raced>>

\* keytype.generate(size) rejects.
generateRejected(c) ==
    /\ calls[c].st = "generating"
    /\ calls' = [calls EXCEPT ![c] = Rejected(@, "generate failed", "generate")]
    /\ ret' = NoRet
    /\ UNCHANGED <<types, keysets, removed, coerce, raced>>

\* A plausible slip: the generated key is filed at once, before add has
\* looked up the factory and prepared it.
generateResolvedEager(c, jwk) ==
    /\ calls[c].st = "generating"
    /\ LET merged == Merge(calls[c].jwk, jwk, calls[c].jwk.kty) IN
       /\ calls' = [calls EXCEPT ![c] = AddLookup(calls[c], merged, "add")]
       /\ keysets' = [keysets EXCEPT ![calls[c].store] =
                        Push(@, BaseKey(c, merged.kty, calls[c].store, merged, {}))]
    /\ ret' = NoRet
    /\ UNCHANGED <<types, removed, coerce, raced>>

\* keytype.generate(size) resolves with jwk: the continuation merges and
\* calls self.add, whose synchronous part runs in the same step.
generateResolved(c, jwk) ==
    /\ calls[c].st = "generating"
    /\ calls' = [calls EXCEPT ![c] =
                   AddLookup(calls[c],
                             Merge(calls[c].jwk, jwk, calls[c].jwk.kty), "add")]
    /\ ret' = NoRet
    /\ UNCHANGED <<types, keysets, removed, coerce, raced>>

\* --------------------------------------------------------------- remove

\* store.remove(jwk). The history raced is left to the specification.
remove(s, jwk) ==
    /\ keysets' = [keysets EXCEPT ![s] = RemoveKey(@, jwk)]
    /\ removed' = IF keysets'[s] # keysets[s] THEN removed \cup {jwk.uid} ELSE removed
    /\ ret' = [NoRet EXCEPT !.op = "remove", !.store = s, !.arg = jwk]
    /\ UNCHANGED <<types, calls, coerce>>

\* The calls that wait for prepare on store s with the identifier of a
\* bucket that the step deletes.
RacedBy(s) ==
    {c \in CallIds : /\ calls[c].st = "preparing"
                     /\ calls[c].store = s
                     /\ BucketIdOf(calls[c].jwk) \in BucketIds(keysets[s])
                     /\ BucketIdOf(calls[c].jwk) \notin BucketIds(keysets'[s])}

\* store.remove(jwk), with the history of the calls it raced kept.
removeRaced(s, jwk) ==
    /\ remove(s, jwk)
    /\ raced' = raced \cup RacedBy(s)

\* -------------------------------------------------------------- queries

\* store.all(props, local)
allCall(s, props, local) ==
    /\ ret' = [NoRet EXCEPT !.op = "all", !.store = s, !.props = props,
                            !.local = local,
                            !.seq = all(keysets, s, props, local)]
    /\ UNCHANGED <<types, keysets, calls, removed, coerce, raced>>

\* matches(key) under the filter props, as keysets[id].filter(matches)
\* uses it: the key is kept or not.
matchCall(props, key) ==
    /\ ret' = [NoRet EXCEPT !.op = "matches", !.props = props, !.arg = key,
                            !.res = IF matches(props, key) THEN RetKey(key) ELSE RetNull]
    /\ UNCHANGED <<types, keysets, calls, removed, coerce, raced>>

\* store.get(kid, props, local); ret keeps the effective filter and
\* whether local was truthy.
getCall(s, kid, props, local) ==
    /\ LET r == Reconcile(kid, props, local) IN
       ret' = [NoRet EXCEPT !.op = "get", !.store = s, !.props = Fixup(r),
                            !.local = JTruthy(r.local),
                            !.res = get(keysets, s, kid, props, local)]
    /\ UNCHANGED <<types, keysets, calls, removed, coerce, raced>>

\* A plausible slip: the keys of the ancestors are listed too.
ToJSONWithParents(kss, s, isPrivate) ==
    LET keys == all(kss, s, EmptyProps, FALSE) IN
    [i \in 1..Len(keys) |-> KeyToJSON(keys[i], isPrivate)]

\* The keys member of store.toJSON(isPrivate): the buckets of the store's
\* own keysets in the order of Object.keys, each key as its toJSON.
toJSON(kss, s, isPrivate) ==
    LET keys == Flatten(kss[s]) IN
    [i \in 1..Len(keys) |-> KeyToJSON(keys[i], isPrivate)]

\* store.toJSON(isPrivate)
toJSONCall(s, isPrivate) ==
    /\ ret' = [NoRet EXCEPT !.op = "toJSON", !.store = s, !.isPrivate = isPrivate,
                            !.seq = toJSON(keysets, s, isPrivate)]
    /\ UNCHANGED <<types, keysets, calls, removed, coerce, raced>>

\* ----------------------------------------------------------- asKeyStore

\* The number of calls made so far.
Made == Cardinality({c \in CallIds : calls[c].op # "none"})

\* An element of the list as add's argument.
EntryInput(v) == IF v.t = "string" THEN TextInput(v.text) ELSE ObjectInput(v.json)

\* The index of the first element of the list whose add throws, or 0.
FirstThrow(items) ==
    LET bad == {i \in 1..Len(items) : AddSync("root", EntryInput(items[i])).st = "thrown"}
    IN IF bad = {} THEN 0 ELSE CHOOSE i \in bad : \A j \in bad : i <= j

\* keys.map(k => store.add(k)) from call number first on: every add is
\* started, up to and including one that throws.
MapAdd(items, first) ==
    LET stop == FirstThrow(items)
        n == IF stop = 0 THEN Len(items) ELSE stop
    IN [c \in CallIds |-> IF c \in first..(first + n - 1)
                          THEN AddSync("root", EntryInput(items[c - first + 1]))
                          ELSE calls[c]]

\* Promise.all(keys).then(() => store) just after the adds were started:
\* of the promises already rejected the first in the list wins.
AllOf(entries, cs) ==
    LET failed == {c \in entries : cs[c].st = "rejected"}
        pending == [NoCoerce EXCEPT !.st = "pending", !.store = "root",
                                    !.n = Cardinality(entries),
                                    !.entries = entries]
    IN IF failed # {}
       THEN LET c == CHOOSE x \in failed : \A y \in failed : x <= y
            IN [pending EXCEPT !.st = "rejected", !.err = cs[c].err, !.by = c]
       ELSE IF entries = {} THEN [pending EXCEPT !.st = "resolved"]
       ELSE pending

\* JWKStore.asKeyStore(ks), up to the promise it returns or the error it
\* throws. The store it creates is "root", which has no parent.
asKeyStore(ks) ==
    /\ coerce.st = "idle"
    /\ keysets["root"] = <<>>
    /\ LET parsed == IF ks.t = "string" THEN JSONparse(ks.text) ELSE Parsed(ks)
           v == parsed.v
           first == Made + 1
       IN IF ks.t = "store"
          THEN /\ coerce' = [NoCoerce EXCEPT !.st = "resolved", !.store = ks.store]
               /\ UNCHANGED calls
          ELSE IF ~parsed.ok
          THEN /\ coerce' = [NoCoerce EXCEPT !.st = "thrown", !.err = "SyntaxError"]
               /\ UNCHANGED calls
          ELSE IF v.t \in {"array", "keys"}
          THEN /\ Made + Len(v.items) <= MaxCalls
               /\ calls' = MapAdd(v.items, first)
               /\ coerce' =
                    IF FirstThrow(v.items) # 0
                    THEN [NoCoerce EXCEPT !.st = "thrown", !.err = "SyntaxError",
                                          !.store = "root", !.n = Len(v.items),
                                          !.entries = first..(first + FirstThrow(v.items) - 1)]
                    ELSE AllOf(first..(first + Len(v.items) - 1), calls')
          ELSE IF v.t = "object"
          THEN /\ coerce' = [NoCoerce EXCEPT !.st = "rejected", !.err = "invalid keystore"]
               /\ UNCHANGED calls
          ELSE /\ coerce' = [NoCoerce EXCEPT !.st = "thrown", !.err = "TypeError"]
               /\ UNCHANGED calls
    /\ ret' = NoRet
    /\ UNCHANGED <<types, keysets, removed, raced>>

\* ------------------------------------------------------- specifications

\* The configurations prepare resolves with, as the sets of algorithms the
\* new key supports.
Cfgs == {{"dir", "A1"}, {"A1"}}

\* Concurrent use of one store: adds, generates and removes in flight
\* together while the factory comes and goes.
MainStores == {"leaf"}

MainJson == {Json("oct", "a", Absent, Absent, TRUE),
             Json("oct", Absent, Absent, Absent, TRUE)}

MainProps == {Json(Absent, "a", Absent, Absent, FALSE)}

\* What a factory's generate resolves with: the key material, with or
\* without a tag of its own.
GenOutputs == {Json(Absent, Absent, Absent, Absent, TRUE),
               Json("EC", Absent, Absent, Absent, TRUE)}

Next ==
    \/ register(1)
    \/ unregister(1)
    \/ \E c \in CallIds, s \in MainStores :
         \/ \E j \in MainJson : add(c, s, ObjectInput(j))
         \/ \E k \in KnownKeys : add(c, s, KeyInput(k))
         \/ \E p \in MainProps : generate(c, s, "oct", p)
    \/ \E c \in CallIds :
         \/ prepareResolved(c, {"dir"})
         \/ prepareRejected(c)
         \/ generateRejected(c)
         \/ \E j \in GenOutputs : generateResolved(c, j)
    \/ \E s \in MainStores, k \in KnownKeys \cup {NoKey} :
         remove(s, k) /\ UNCHANGED raced

Spec == Init /\ [][Next]_vars

\* A client that awaits each add before the next, on the chain of three
\* stores, and queries them with all, get and toJSON, one call at a time.
NoneInFlight == \A c \in CallIds : calls[c].st \notin {"preparing", "generating"}

QueryJson == {Json("oct", "a", Absent, Absent, FALSE),
              Json("oct", Absent, "sig", "A1", FALSE)}

AllFilters == {EmptyProps,
               Props(Absent, Absent, Absent, "a"),
               Props(Absent, Absent, "dir", Absent)}

\* The argument lists of get: get("a"), get({alg: "A1"}), get(true),
\* get("a", undefined, true).
GetArgs == {<<JStr("a"), JUndef, JUndef>>,
            <<JObj(Props(Absent, Absent, "A1", Absent)), JUndef, JUndef>>,
            <<JBool(TRUE), JUndef, JUndef>>,
            <<JStr("a"), JUndef, JBool(TRUE)>>}

\* The client has taken the last result and holds none.
drop ==
    /\ ret # NoRet
    /\ ret' = NoRet
    /\ UNCHANGED <<types, keysets, calls, removed, coerce, raced>>

NextQuery ==
    \/ ret = NoRet /\ register(1)
    \/ \E c \in CallIds, s \in Stores, j \in QueryJson :
         ret = NoRet /\ NoneInFlight /\ add(c, s, ObjectInput(j))
    \/ \E c \in CallIds, cfg \in Cfgs : ret = NoRet /\ prepareResolved(c, cfg)
    \/ \E s \in Stores, f \in AllFilters, local \in BOOLEAN :
         ret = NoRet /\ allCall(s, f, local)
    \/ \E s \in Stores, a \in GetArgs : ret = NoRet /\ getCall(s, a[1], a[2], a[3])
    \/ \E s \in Stores, isPrivate \in BOOLEAN : ret = NoRet /\ toJSONCall(s, isPrivate)
    \/ drop

SpecQuery == Init /\ [][NextQuery]_vars

\* Clients that coerce values into a store and add texts to a store of
\* their own, with the factory for "oct" registered.
CoerceTexts == {"{\"kty\":\"oct\",\"kid\":\"a\"}", "[{\"kty\":\"oct\",\"kid\":\"a\"}]",
                "{\"keys\":[{\"kty\":\"oct\",\"kid\":\"a\"}]}", "{}", "[]", "42",
                "not json"}

CoerceEntries == {VObject(JwkA), VObject(JwkRsa), VText("{\"kty\":\"oct\",\"kid\":\"a\"}"),
                  VText("not json")}

CoerceLists == {<<>>} \cup {<<x>> : x \in CoerceEntries}
                 \cup {<<x, y>> : x, y \in CoerceEntries}

CoerceInputs ==
    {VText(x) : x \in CoerceTexts} \cup {VArray(l) : l \in CoerceLists}
      \cup {VKeys(<<VObject(JwkA), VObject(JwkA)>>), VObject(JwkA), VNumber,
            VStore("leaf")}

NextCoerce ==
    \/ register(1)
    \/ \E ks \in CoerceInputs : asKeyStore(ks)
    \/ \E c \in CallIds, x \in CoerceTexts : add(c, "leaf", TextInput(x))
    \/ \E c \in CallIds : prepareResolved(c, {"A1"}) \/ prepareRejected(c)

SpecCoerce == Init /\ [][NextCoerce]_vars

\* Two stores, parent and child, used together: adds in flight on both
\* while keys are removed, from the store that holds them or the other.
RemoveStores == {"mid", "leaf"}

NextRemove ==
    \/ register(1)
    \/ \E c \in CallIds, s \in RemoveStores, j \in MainJson : add(c, s, ObjectInput(j))
    \/ \E c \in CallIds : prepareResolved(c, {"A1"})
    \/ \E s \in RemoveStores, k \in KnownKeys \cup {NoKey} : removeRaced(s, k)

SpecRemove == Init /\ [][NextRemove]_vars

\* The registry alone: factories, valid or not, registered and
\* unregistered in any order, and tags looked up.
Factories == 0..6

AskedTags == {"oct", "EC", "RSA", "", Absent}

NextRegistry ==
    \/ \E f \in Factories : register(f) \/ unregister(f)
    \/ \E kty \in AskedTags : registryGet(kty)

SpecRegistry == Init /\ [][NextRegistry]_vars

\* Adds on one store whose prepare settles sooner or later, either way,
\* while the factory comes and goes: the continuations of a settled
\* promise are run by the job queue, so a prepare that can settle does.
NextLive ==
    \/ register(1)
    \/ unregister(1)
    \/ \E c \in CallIds, j \in MainJson : add(c, "leaf", ObjectInput(j))
    \/ \E c \in CallIds : prepareResolved(c, {"A1"}) \/ prepareRejected(c)

SpecLive ==
    /\ Init
    /\ [][NextLive]_vars
    /\ \A c \in CallIds : WF_vars(prepareResolved(c, {"A1"}) \/ prepareRejected(c))

\* The filter of all on its own: every filter against every key, the key
\* not yet in any store; then a store filled by a client that awaits each
\* add, and searched with filters that name an identifier or none.
MatchFilters ==
    {Props(kty, use, alg, Absent) : kty \in {Absent, "", "oct", "EC"},
                                    use \in {Absent, "sig", "enc"},
                                    alg \in {Absent, "dir", "A1", "A2"}}

MatchKeys ==
    {BaseKey(1, kty, "leaf", Json(kty, "a", use, alg, FALSE), sup) :
       kty \in {"oct", "EC"}, use \in {Absent, "sig", "enc"},
       alg \in {Absent, "A1", "dir"},
       sup \in {{}, {"A1"}, {"dir"}, {"dir", "A1", "A2"}}}

MatchJson == {Json("oct", "a", Absent, Absent, FALSE),
              Json("oct", "b", "sig", "A1", FALSE),
              Json("oct", Absent, "enc", Absent, FALSE)}

KidFilters ==
    {Props(Absent, use, alg, kid) : use \in {Absent, "sig"}, alg \in {Absent, "A1"},
                                    kid \in {Absent, "", "a", "b", "c"}}

NextMatch ==
    \/ ret = NoRet /\ register(1)
    \/ \E f \in MatchFilters, k \in MatchKeys : ret = NoRet /\ Made = 0 /\ matchCall(f, k)
    \/ \E c \in CallIds, j \in MatchJson :
         ret = NoRet /\ NoneInFlight /\ add(c, "leaf", ObjectInput(j))
    \/ \E c \in CallIds, cfg \in Cfgs : ret = NoRet /\ prepareResolved(c, cfg)
    \/ \E f \in KidFilters : ret = NoRet /\ allCall("leaf", f, TRUE)
    \/ drop

SpecMatch == Init /\ [][NextMatch]_vars

\* ---------------------------------------------------------------- claims

\* The keys a store holds itself, bucket by bucket.
Held(s) == Range(Flatten(keysets[s]))

\* The calls that are awaiting a factory's promise.
InFlight == {c \in CallIds : calls[c].st \in {"preparing", "generating"}}

\* Call c, an add or a generate, settles in this step with st.
Settles(c, st) == calls[c].st # st /\ calls'[c].st = st

\* C1: an add that fails, because no factory is registered for the tag or
\* because prepare rejects, is rejected and inserts nothing: the step that
\* rejects it leaves every store's keysets as they were, and no store ever
\* holds a key made by a rejected add, whatever else is in flight.
C1_FailedAddInsertsNothing ==
    /\ [](\A c \in CallIds, s \in Stores :
            calls[c].op = "add" /\ calls[c].st = "rejected"
              => \A k \in Held(s) : k.uid # c)
    /\ [][\A c \in CallIds :
            calls'[c].op = "add" /\ Settles(c, "rejected")
              => keysets' = keysets]_vars

\* An add rejected by prepare and an add rejected for its tag, with a
\* third call still in flight.
C1_Witness ==
    \E c, d, e \in CallIds :
        /\ calls[c].op = "add" /\ calls[c].st = "rejected" /\ calls[c].at = "prepare"
        /\ calls[d].op = "add" /\ calls[d].st = "rejected"
        /\ calls[d].err = "unsupported key type"
        /\ e \in InFlight

\* C2 as stated: when a store with a parent holds no key matching the
\* effective filter and get is not local, get returns what the parent's
\* non-local get returns for that filter, and so a key some ancestor holds.
C2_GetDelegatesToParent ==
    (/\ ret.op = "get"
     /\ Parent(ret.store) # NoStore
     /\ ~ret.local
     /\ all(keysets, ret.store, ret.props, TRUE) = <<>>)
    => /\ ret.res = get(keysets, Parent(ret.store), JObj(ret.props), JUndef, JUndef)
       /\ all(keysets, ret.store, ret.props, FALSE) # <<>> => ret.res.kind = "key"

\* C3 as stated: a get for which neither the store nor, when the lookup
\* is not local, any ancestor holds a matching key returns null and does
\* not throw.
C3_GetMissReturnsNull ==
    (ret.op = "get" /\ all(keysets, ret.store, ret.props, ret.local) = <<>>)
    => ret.res = RetNull

\* C4 as stated: remove(k) of a key held in the bucket of its identifier
\* (its kid, or "" without one) takes exactly k out of that bucket, keeps
\* the other keys in their order, deletes the bucket when it is left
\* empty, touches no other bucket, and all() of the store's own keys no
\* longer returns k.
C4_RemoveTakesKeyOut ==
    [][(/\ ret'.op = "remove"
        /\ ret'.arg # NoKey
        /\ ret'.arg \in Range(Bucket(keysets[ret'.store], BucketIdOf(ret'.arg))))
       => LET s == ret'.store
              k == ret'.arg
              id == BucketIdOf(k)
              old == Bucket(keysets[s], id)
              rest == SelectSeq(old, LAMBDA x : x.uid # k.uid)
          IN /\ Len(rest) = Len(old) - 1
             /\ Bucket(keysets'[s], id) = rest
             /\ rest = <<>> => id \notin BucketIds(keysets'[s])
             /\ \A other \in BucketIds(keysets[s]) \ {id} :
                  Bucket(keysets'[s], other) = Bucket(keysets[s], other)
             /\ k \notin Range(all(keysets', s, EmptyProps, TRUE))]_vars

\* The filters the store-level claims range over.
FilterSpace ==
    {Props(kty, use, alg, kid) :
       kty \in {Absent, "oct", "EC"}, use \in {Absent, "sig"},
       alg \in {Absent, "dir", "A1"}, kid \in {Absent, "", "a"}}

\* C5: for every filter f and every store s with parent p, s.all(f) is
\* s.all(f, true) followed by p.all(f); the leaf's all(f) is its own
\* matches, then mid's, then root's; and an all call that is not local
\* returns just that.
C5_AllIsLocalThenParent ==
    /\ ret = NoRet =>
         \A f \in FilterSpace :
           /\ \A s \in Stores : Parent(s) # NoStore =>
                all(keysets, s, f, FALSE)
                  = all(keysets, s, f, TRUE) \o all(keysets, Parent(s), f, FALSE)
           /\ all(keysets, "leaf", f, FALSE)
                = LocalAll(keysets["leaf"], f) \o LocalAll(keysets["mid"], f)
                    \o LocalAll(keysets["root"], f)
    /\ (ret.op = "all" /\ ~ret.local /\ Parent(ret.store) # NoStore) =>
         ret.seq = all(keysets, ret.store, ret.props, TRUE)
                     \o all(keysets, Parent(ret.store), ret.props, FALSE)

\* leaf.all({kid: "a"}) has returned keys of the leaf, of mid and of root.
C5_Witness ==
    /\ ret.op = "all" /\ ret.store = "leaf" /\ ~ret.local
    /\ ret.props = Props(Absent, Absent, Absent, "a")
    /\ \A s \in Stores : \E k \in Range(ret.seq) : k.keystore = s

\* {alg: "dir"}
DirFilter == Props(Absent, Absent, "dir", Absent)

\* C6 as stated: all({alg: "dir"}, true) returns every key the store
\* holds.
C6_DirMatchesEveryKey ==
    \A s \in Stores : all(keysets, s, DirFilter, TRUE) = Flatten(keysets[s])

\* C6, amended: all({alg: "dir"}, true) returns, in storage order, the keys
\* of the store that report support for "dir", whatever their own alg.
C6_DirMatchesSupportingKeys ==
    /\ \A s \in Stores :
         all(keysets, s, DirFilter, TRUE)
           = SelectSeq(Flatten(keysets[s]), LAMBDA k : Supports(k, "dir"))
    /\ (ret.op = "all" /\ ret.props = DirFilter /\ ret.local) =>
         ret.seq = SelectSeq(Flatten(keysets[ret.store]),
                             LAMBDA k : Supports(k, "dir"))

\* all({alg: "dir"}, true) has returned a key whose own alg is "A1" and
\* left out a key that does not support "dir".
C6_Witness ==
    /\ ret.op = "all" /\ ret.props = DirFilter /\ ret.local
    /\ \E k \in Range(ret.seq) : k.alg = "A1"
    /\ \E k \in Held(ret.store) : k \notin Range(ret.seq)

\* The number of times key k occurs in seq.
Count(seq, k) == Cardinality({i \in 1..Len(seq) : seq[i].uid = k.uid})

\* C7: every key an add resolved with, and no remove has taken out, is
\* once in the bucket of its identifier and is returned by all({kid: K}):
\* two adds with the same identifier leave two entries, in sequence or in
\* flight together.
C7_SameKidBothKept ==
    \A c \in CallIds :
        (calls[c].st = "resolved" /\ c \notin removed) =>
            LET k == calls[c].key
                K == BucketIdOf(k)
            IN /\ Count(Bucket(keysets[k.keystore], K), k) = 1
               /\ Count(all(keysets, k.keystore, Props(Absent, Absent, Absent, K), FALSE), k) = 1

\* Three keys with identifier "a" in one bucket, all returned by
\* all({kid: "a"}).
C7_Witness ==
    /\ Len(Bucket(keysets["leaf"], "a")) = 3
    /\ Len(all(keysets, "leaf", Props(Absent, Absent, Absent, "a"), FALSE)) = 3
    /\ removed = {}

\* C8: the continuation of an add whose prepare resolved appends its key
\* after every key already in the bucket and touches nothing else: the
\* order within a bucket is the order of completion.
C8_AppendInCompletionOrder ==
    [][\A c \in CallIds :
         Settles(c, "resolved") =>
           LET k == calls'[c].key
               s == k.keystore
               id == BucketIdOf(k)
           IN /\ Bucket(keysets'[s], id) = Append(Bucket(keysets[s], id), k)
              /\ \A other \in BucketIds(keysets[s]) \ {id} :
                   Bucket(keysets'[s], other) = Bucket(keysets[s], other)
              /\ BucketIds(keysets'[s]) = BucketIds(keysets[s]) \cup {id}]_vars

\* A bucket that holds the key of a later call before the key of an
\* earlier call: the later add completed first.
C8_Witness ==
    \E s \in Stores :
      \E id \in BucketIds(keysets[s]) :
        LET b == Bucket(keysets[s], id) IN
        \E i, j \in 1..Len(b) : i < j /\ b[i].uid > b[j].uid

\* C9 as stated: a key stored by an add that was given a Key carries no
\* private fields and is not the Key that was given.
C9_AddOfKeyStoresPublicCopy ==
    \A c \in CallIds :
        (calls[c].st = "resolved" /\ calls[c].src # 0) =>
            /\ ~calls[c].key.d
            /\ calls[c].key.uid # calls[c].src
            /\ \A s \in Stores : Count(Flatten(keysets[s]), calls[c].key) <= 1

\* C10: the step in which a generate resolves adds exactly one key, the
\* one it resolves with, to its store and changes no other store; every
\* other step of a generate, its rejection at the call, by the factory or
\* by the delegated add included, leaves the keysets unchanged.
C10_GenerateAddsOneOrNothing ==
    [][\A c \in CallIds :
         (calls'[c].op = "generate" /\ calls'[c] # calls[c]) =>
           IF calls'[c].st = "resolved"
           THEN LET s == calls'[c].store
                IN /\ Len(Flatten(keysets'[s])) = Len(Flatten(keysets[s])) + 1
                   /\ Range(Flatten(keysets'[s])) = Held(s) \cup {calls'[c].key}
                   /\ calls'[c].key \notin Held(s)
                   /\ \A o \in Stores \ {s} : keysets'[o] = keysets[o]
           ELSE keysets' = keysets]_vars

\* A generate rejected by the delegated add, its factory unregistered
\* while the generation was in flight, and a generate that resolved.
C10_Witness ==
    \E c, d \in CallIds :
        /\ calls[c].op = "generate" /\ calls[c].st = "rejected"
        /\ calls[c].at = "add" /\ calls[c].err = "unsupported key type"
        /\ calls[d].op = "generate" /\ calls[d].st = "resolved"
        /\ calls[d].key \in Held(calls[d].store)

\* C11: every failure of asKeyStore and of add that the input causes (a
\* text that is no JSON, a value that is no store, list or object with
\* keys, an unsupported type tag) is delivered as a rejection of the
\* returned promise: no call throws.
C11_InputFailuresAreRejections ==
    /\ coerce.st # "thrown"
    /\ \A c \in CallIds : calls[c].st # "thrown"

\* C12: asKeyStore on a list of n entries starts all n adds at once;
\* its promise is fulfilled only when every add has succeeded, and the
\* store then holds exactly the n keys of those adds, same identifier or
\* not; the first add to fail rejects it with that failure, for good.
C12_AsKeyStoreWaitsForEveryAdd ==
    /\ [](coerce.store = "root" =>
            /\ Cardinality(coerce.entries) = coerce.n
            /\ coerce.st \in {"pending", "resolved", "rejected"}
            /\ coerce.st = "resolved" <=>
                 \A c \in coerce.entries : calls[c].st = "resolved"
            /\ coerce.st = "resolved" =>
                 /\ Len(Flatten(keysets["root"])) = coerce.n
                 /\ Range(Flatten(keysets["root"])) = {calls[c].key : c \in coerce.entries}
            /\ coerce.st = "rejected" <=>
                 \E c \in coerce.entries : calls[c].st \notin {"preparing", "resolved"}
            /\ coerce.st = "rejected" =>
                 /\ calls[coerce.by].st = "rejected"
                 /\ coerce.err = calls[coerce.by].err)
    /\ [][/\ \A c \in coerce.entries :
               coerce.st = "pending" /\ Settles(c, "rejected")
                 => coerce'.st = "rejected" /\ coerce'.by = c
          /\ coerce.st = "rejected" => coerce' = coerce]_vars

\* C13: toJSON of a store lists the store's own keys only, bucket by
\* bucket in storage order, each as its JSON form: the keys and the order
\* of all({}, true), and no key of an ancestor.
C13_ToJSONListsOwnKeys ==
    ret.op = "toJSON" =>
        LET own == all(keysets, ret.store, EmptyProps, TRUE) IN
        /\ Len(ret.seq) = Len(own)
        /\ \A i \in 1..Len(own) : ret.seq[i] = KeyToJSON(own[i], ret.isPrivate)
        /\ own = Flatten(keysets[ret.store])

\* toJSON of a store with keys in two buckets whose parent holds a key.
C13_Witness ==
    /\ ret.op = "toJSON"
    /\ ret.store = "leaf"
    /\ Len(keysets["leaf"]) = 2
    /\ keysets["mid"] # <<>>
    /\ Len(ret.seq) = 2

\* C14: remove of no key, of a key whose identifier has no bucket in the
\* store, or of a key the store does not hold by identity (another store
\* may hold it under the same identifier) leaves the store's keysets, and
\* every other store's, as they were.
C14_RemoveOfStrangerChangesNothing ==
    [][(/\ ret'.op = "remove"
        /\ \/ ret'.arg = NoKey
           \/ BucketIdOf(ret'.arg) \notin BucketIds(keysets[ret'.store])
           \/ PropName(ret'.arg.kid) \notin BucketIds(keysets[ret'.store])
           \/ ret'.arg \notin Held(ret'.store))
       => keysets' = keysets /\ removed' = removed]_vars

\* leaf was asked to remove a key that mid holds under "a", while leaf has
\* a bucket "a" with a key of its own.
C14_Witness ==
    /\ ret.op = "remove"
    /\ ret.store = "leaf"
    /\ ret.arg.keystore = "mid"
    /\ ret.arg \in Range(Bucket(keysets["mid"], "a"))
    /\ Bucket(keysets["leaf"], "a") # <<>>

\* C15: register of no factory, or of a factory whose tag is not a
\* non-empty string, throws and leaves the registry as it was; register of
\* any other factory succeeds, and get of its tag then returns it, also
\* when another factory held the tag.
C15_RegisterValidatesAndReplaces ==
    [][ret'.op = "register" =>
         LET f == ret'.fac IN
         IF f = NoFactory \/ FactoryKty(f) \in {Absent, ""}
         THEN ret'.res = RetThrow /\ types' = types
         ELSE /\ ret'.res = RetNull
              /\ RegistryGet(types', FactoryKty(f)) = f
              /\ \A tag \in Tags \ {FactoryKty(f)} :
                   RegistryGet(types', tag) = RegistryGet(types, tag)]_vars

\* Factory 2 was registered under "oct" while factory 1 held the tag.
C15_Witness ==
    /\ ret.op = "register"
    /\ ret.fac = 2
    /\ ret.was = 1
    /\ RegistryGet(types, "oct") = 2

\* C16: unregister of a factory frees its tag only when the factory stored
\* under the tag is that very factory; when another factory holds the tag,
\* or none, get of the tag returns what it returned before. No other tag
\* is touched either way.
C16_UnregisterOnlyTheStoredFactory ==
    [][ret'.op = "unregister" /\ ret'.res = RetNull =>
         LET f == ret'.fac
             tag == FactoryKty(f)
         IN /\ RegistryGet(types', tag) =
                 IF RegistryGet(types, tag) = f THEN NoFactory
                 ELSE RegistryGet(types, tag)
            /\ \A other \in Tags \ {tag} :
                 RegistryGet(types', other) = RegistryGet(types, other)]_vars

\* Factory 1 was unregistered while factory 2 held its tag, and factory 2
\* still holds it.
C16_Witness ==
    /\ ret.op = "unregister"
    /\ ret.fac = 1
    /\ ret.was = 2
    /\ RegistryGet(types, "oct") = 2

\* C17: every add whose prepare settles settles itself: a call that waits
\* for prepare is in the end resolved or rejected; when it resolves, its
\* new key is in the store; and a settled call keeps its outcome.
C17_EveryAddSettles ==
    /\ \A c \in CallIds :
         calls[c].st = "preparing" ~> calls[c].st \in {"resolved", "rejected"}
    /\ [][\A c \in CallIds :
            /\ Settles(c, "resolved") =>
                 /\ calls'[c].key.uid = c
                 /\ calls'[c].key \in Range(Flatten(keysets'[calls[c].store]))
            /\ Settles(c, "rejected") => calls'[c].err # ""
            /\ calls[c].st \in {"resolved", "rejected"} => calls'[c] = calls[c]]_vars

\* Every call was made and has settled, one resolved after waiting for
\* prepare and one rejected by prepare.
C17_Witness ==
    /\ \A c \in CallIds : calls[c].st \in {"resolved", "rejected"}
    /\ \E c \in CallIds : calls[c].st = "resolved"
    /\ \E c \in CallIds : calls[c].st = "rejected" /\ calls[c].at = "prepare"

\* A field that is set: it has a value, and not the empty one.
IsSet(x) == x \notin {Absent, ""}

\* The match of C18, as the claim words it.
Accepts(f, k) ==
    /\ ~(IsSet(f.kty) /\ IsSet(k.kty) /\ f.kty # k.kty)
    /\ ~(IsSet(f.use) /\ IsSet(k.use) /\ f.use # k.use)
    /\ IsSet(f.alg) =>
         /\ f.alg = "dir" \/ ~IsSet(k.alg) \/ k.alg = f.alg
         /\ f.alg \in k.sup

\* C18: the filter of all keeps a key exactly when the filter's kty and
\* use, where both sides set one, agree with the key's, and, when the
\* filter sets alg, the key's alg is unset or equal or the filter's is
\* "dir", and the key supports the filter's alg; a filter that sets kid
\* has only the bucket of that identifier scanned; fields the filter does
\* not set constrain nothing.
C18_MatchIsTheStatedPredicate ==
    /\ ret.op = "matches" =>
         /\ ret.res \in {RetKey(ret.arg), RetNull}
         /\ ret.res = RetKey(ret.arg) <=> Accepts(ret.props, ret.arg)
    /\ ret.op = "all" =>
         LET f == ret.props
             scanned == SelectSeq(keysets[ret.store],
                                  LAMBDA b : ~IsSet(f.kid) \/ b.id = f.kid)
         IN ret.seq = SelectSeq(Flatten(scanned), LAMBDA k : Accepts(f, k))

\* A filter that sets all of kty, use and alg has kept a key that sets
\* neither use nor alg and supports the filter's alg.
C18_Witness ==
    /\ ret.op = "matches"
    /\ ret.props.kty = ret.arg.kty
    /\ ret.props.use = "sig" /\ ret.arg.use = Absent
    /\ ret.props.alg = "A1" /\ ret.arg.alg = Absent
    /\ ret.res = RetKey(ret.arg)

\* C19: no bucket of any store's keysets is ever empty: a bucket exists
\* only while it holds a key.
C19_NoEmptyBucket ==
    \A s \in Stores : \A i \in 1..Len(keysets[s]) : keysets[s][i].keys # <<>>

\* A remove has taken the last key out of its bucket, the bucket is gone,
\* and the store still has another.
C19_Witness ==
    /\ ret.op = "remove"
    /\ ret.arg.uid \in removed
    /\ BucketIdOf(ret.arg) \notin BucketIds(keysets[ret.store])
    /\ keysets[ret.store] # <<>>

\* C20: when a remove has deleted the bucket of identifier K while an add
\* of a key with identifier K waited for prepare, the add, completing,
\* files its key in the store's bucket K as it is then, a fresh bucket of
\* that key alone when there is none, and all({kid: K}) returns the key:
\* the key is never pushed into a sequence the store has let go of.
C20_AddAfterRacingRemoveIsVisible ==
    [][\A c \in raced :
         Settles(c, "resolved") =>
           LET s == calls[c].store
               key == calls'[c].key
               K == BucketIdOf(key)
               bucket == Bucket(keysets'[s], K)
           IN /\ bucket # <<>>
              /\ bucket[Len(bucket)] = key
              /\ K \notin BucketIds(keysets[s]) => bucket = <<key>>
              /\ key \in Range(all(keysets', s, Props(Absent, Absent, Absent, K), TRUE))]_vars

\* A call whose bucket a remove deleted while it waited has resolved, and
\* its key is alone in the bucket of its identifier.
C20_Witness ==
    \E c \in raced :
        /\ calls[c].st = "resolved"
        /\ removed # {}
        /\ Bucket(keysets[calls[c].store], BucketIdOf(calls[c].key)) = <<calls[c].key>>

====
